---- MODULE Spec2Model ----
(***************************************************************************)
(* A model of the Maelstrom node of maelstrom-rs: the wire message         *)
(* (src/message.rs), the Node lifecycle and handler dispatch               *)
(* (src/node.rs).                                                          *)
(*                                                                         *)
(* A Rust String whose characters matter (a node id) is a sequence of      *)
(* one-character strings; src, dest and the message type are atoms.        *)
(***************************************************************************)
EXTENDS Integers, Sequences, FiniteSets

\* ------------------------------------------------------------------------
\* Bounds of the model.
\* ------------------------------------------------------------------------
\* Node::handle is called at most MaxCalls times on one Node.
MaxCalls == 4
\* The msg_id of a request is drawn from 0 .. MaxReqId.
MaxReqId == 1

\* ------------------------------------------------------------------------
\* serde_json::Value, as far as the node reads it.
\* ------------------------------------------------------------------------
JNull == [kind |-> "null", s |-> <<>>, n |-> 0, a |-> <<>>]
JString(str) == [kind |-> "string", s |-> str, n |-> 0, a |-> <<>>]
JNumber(num) == [kind |-> "number", s |-> <<>>, n |-> num, a |-> <<>>]
JArray(elems) == [kind |-> "array", s |-> <<>>, n |-> 0, a |-> elems]
\* The marker of a key that the Map does not hold (Map::get returns None).
Absent == [kind |-> "absent", s |-> <<>>, n |-> 0, a |-> <<>>]

Quote == "\""
Backslash == "\\"

RECURSIVE Concat(_)
Concat(seqs) == IF seqs = <<>> THEN <<>> ELSE Head(seqs) \o Concat(Tail(seqs))

RECURSIVE Digits(_)
\* The decimal digits of a u64, as Display prints them.
Digits(num) ==
    LET d == <<"0", "1", "2", "3", "4", "5", "6", "7", "8", "9">>[(num % 10) + 1]
    IN IF num < 10 THEN <<d>> ELSE Digits(num \div 10) \o <<d>>

\* serde_json's string escaping: a quote becomes \" and a backslash \\.
EscapeChar(c) ==
    IF c = Quote THEN <<Backslash, Quote>>
    ELSE IF c = Backslash THEN <<Backslash, Backslash>>
    ELSE <<c>>

EscapeStr(str) == Concat([i \in 1..Len(str) |-> EscapeChar(str[i])])

RECURSIVE Join(_)
Join(seqs) ==
    IF seqs = <<>> THEN <<>>
    ELSE IF Len(seqs) = 1 THEN seqs[1]
    ELSE seqs[1] \o <<",">> \o Join(Tail(seqs))

\* Value::to_string of a scalar: the compact JSON text of the value.
ScalarToString(v) ==
    IF v.kind = "string" THEN <<Quote>> \o EscapeStr(v.s) \o <<Quote>>
    ELSE IF v.kind = "number" THEN Digits(v.n)
    ELSE <<"n", "u", "l", "l">>

\* Value::to_string: the compact JSON text of the value.
to_string(v) ==
    IF v.kind = "array"
    THEN <<"[">> \o Join([i \in 1..Len(v.a) |-> ScalarToString(v.a[i])]) \o <<"]">>
    ELSE ScalarToString(v)

\* str::replace("\"", ""): every quote character is removed.
ReplaceQuotes(str) == SelectSeq(str, LAMBDA c : c # Quote)

\* Value::as_array: Some for an array, None otherwise.
IsArray(v) == v.kind = "array"

\* ------------------------------------------------------------------------
\* message.rs: Message and Body.
\* ------------------------------------------------------------------------
EmptyExtra == [k \in {} |-> JNull]

\* Body { typ, msg_id, in_reply_to, extra }
Body(typ, msg_id, in_reply_to, extra) ==
    [typ |-> typ, msg_id |-> msg_id, in_reply_to |-> in_reply_to, extra |-> extra]

\* Body::default(): empty type, both ids 0, no extra field.
DefaultBody == Body("", 0, 0, EmptyExtra)

\* Message { src, dest, body }
Message(src, dest, body) == [src |-> src, dest |-> dest, body |-> body]

DefaultMessage == Message("", "", DefaultBody)

\* Map::get(key)
Get(extra, key) == IF key \in DOMAIN extra THEN extra[key] ELSE Absent

\* ------------------------------------------------------------------------
\* node.rs: State, InitializedNode, Handler.
\* ------------------------------------------------------------------------
\* State::Start
Start == [tag |-> "Start", id |-> <<>>, other_nodes |-> <<>>]

\* State::Initialized(InitializedNode { id, other_nodes })
Initialized(id, other_nodes) ==
    [tag |-> "Initialized", id |-> id, other_nodes |-> other_nodes]

\* Result<Message>: Ok(msg), or Err with the leading words of the error text
\* and the message type the text names (empty when it names none).
Ok(msg) == [ok |-> TRUE, msg |-> msg, err |-> "", typ |-> ""]
Err(text, typ) == [ok |-> FALSE, msg |-> DefaultMessage, err |-> text, typ |-> typ]

\* InitializedNode::new. The result carries the node on success and the
\* error text on failure.
InitializedNode_new_lossy(body) ==
    LET node_id == Get(body.extra, "node_id")
        node_ids == Get(body.extra, "node_ids")
        names == IF IsArray(node_ids) THEN node_ids.a ELSE <<>>
    IN IF body.typ # "init"
       THEN [ok |-> FALSE, err |-> "Can only initialze node with an init message",
             id |-> <<>>, other_nodes |-> <<>>]
       ELSE [ok |-> TRUE, err |-> "",
             id |-> ReplaceQuotes(to_string(node_id)),
             other_nodes |-> [i \in 1..Len(names) |->
                                 ReplaceQuotes(to_string(names[i]))]]

InitializedNode_new(body) ==
    LET node_id == Get(body.extra, "node_id")
        node_ids == Get(body.extra, "node_ids")
    IN IF body.typ # "init"
       THEN [ok |-> FALSE, err |-> "Can only initialze node with an init message",
             id |-> <<>>, other_nodes |-> <<>>]
       ELSE IF node_id = Absent
       THEN [ok |-> FALSE, err |-> "can't init node if body has no node_id field",
             id |-> <<>>, other_nodes |-> <<>>]
       ELSE IF ~IsArray(node_ids)
       THEN [ok |-> FALSE, err |-> "node_ids must be an array of node names",
             id |-> <<>>, other_nodes |-> <<>>]
       ELSE [ok |-> TRUE, err |-> "",
             id |-> ReplaceQuotes(to_string(node_id)),
             other_nodes |-> [i \in 1..Len(node_ids.a) |->
                                 ReplaceQuotes(to_string(node_ids.a[i]))]]

init_reply_echoing(msg, msg_id) ==
    Message(msg.dest, msg.src,
            Body("init_ok", msg_id, msg.body.in_reply_to, msg.body.extra))

\* init_reply: an init_ok body with the given id, answering msg.
init_reply(msg, msg_id) ==
    Message(msg.dest, msg.src, Body("init_ok", msg_id, msg.body.msg_id, EmptyExtra))

echo_reply_bare(msg, msg_id) ==
    Message(msg.dest, msg.src, Body("echo_ok", msg_id, msg.body.msg_id, EmptyExtra))

\* echo_reply of main.rs: the request's body with type, msg_id and
\* in_reply_to replaced.
echo_reply(msg, msg_id) ==
    Message(msg.dest, msg.src,
            Body("echo_ok", msg_id, msg.body.msg_id, msg.body.extra))

\* The handlers (fn(Message, u64) -> Result<Message>) the model registers.
HandlerNames == {"identity_handler", "error_handler", "echo_handler"}

\* The call handler(msg, reply_id) of a registered function.
Invoke(handler, msg, reply_id) ==
    IF handler = "identity_handler" THEN Ok(msg)
    ELSE IF handler = "echo_handler" THEN Ok(echo_reply(msg, reply_id))
    ELSE Err("error from handler", "")

reply_id_stuck(msg_id) == [id |-> msg_id, msg_id |-> msg_id]

\* Node::reply_id: returns the counter and stores the counter plus one. The
\* counter is a u64; Handle makes at most MaxCalls calls, so it stays far
\* below 2^64 and the sum is the plain one.
reply_id(msg_id) == [id |-> msg_id, msg_id |-> msg_id + 1]

NotReady_never(st) == FALSE

\* The test of the Not Ready branch: *self.state.borrow() == State::Start.
NotReady(st) == st = Start

LookupAny(hs, typ) ==
    IF DOMAIN hs = {} THEN "none"
    ELSE hs[CHOOSE k \in DOMAIN hs : TRUE]

\* self.handlers.get(msg_type): the handler registered under the type, or
\* "none".
Lookup(hs, typ) == IF typ \in DOMAIN hs THEN hs[typ] ELSE "none"

Reinit_rederive(st, msg) ==
    LET r == InitializedNode_new(msg.body)
    IN IF r.ok THEN Initialized(r.id, r.other_nodes) ELSE st

\* The state an init message leaves behind when the node is already
\* Initialized: the message is ignored.
Reinit(st, msg) == st

Unimplemented_dest(msg) == Err("UnimplementedError: No handler for message type", msg.dest)

\* The error of a type without a handler; its text names msg.body.typ.
Unimplemented(msg) ==
    Err("UnimplementedError: No handler for message type", msg.body.typ)

Refused_consuming(st, msg_id, e) ==
    [state |-> st, msg_id |-> msg_id + 1, result |-> e, invoked |-> <<>>,
     ids |-> <<msg_id>>]

\* The outcome of a call that returns Err before it reaches a handler: the
\* state and the counter are not written.
Refused(st, msg_id, e) ==
    [state |-> st, msg_id |-> msg_id, result |-> e, invoked |-> <<>>, ids |-> <<>>]

\* Node::handle on a node with the given state, counter and registry. The
\* outcome has the node's new state and counter, the returned Result, the
\* handler invocations made and the reply ids taken from the counter.
handle(st, msg_id, hs, msg) ==
    LET msg_type == msg.body.typ
        rid == reply_id(msg_id)
        fail(e) == Refused(st, msg_id, e)
    IN IF msg_type = "init"
       THEN IF st = Start
            THEN LET r == InitializedNode_new(msg.body)
                 IN IF ~r.ok
                    THEN fail(Err(r.err, ""))
                    ELSE [state |-> Initialized(r.id, r.other_nodes),
                          msg_id |-> rid.msg_id,
                          result |-> Ok(init_reply(msg, rid.id)),
                          invoked |-> <<>>,
                          ids |-> <<rid.id>>]
            ELSE [state |-> Reinit(st, msg),
                  msg_id |-> rid.msg_id,
                  result |-> Ok(init_reply(msg, rid.id)),
                  invoked |-> <<>>,
                  ids |-> <<rid.id>>]
       ELSE IF NotReady(st)
       THEN fail(Err("Not Ready", ""))
       ELSE IF Lookup(hs, msg_type) # "none"
       THEN LET handler == Lookup(hs, msg_type)
            IN [state |-> st,
                msg_id |-> rid.msg_id,
                result |-> Invoke(handler, msg, rid.id),
                invoked |-> <<[handler |-> handler, msg |-> msg, id |-> rid.id]>>,
                ids |-> <<rid.id>>]
       ELSE fail(Unimplemented(msg))

Node_new_unchecked(hs) ==
    [ok |-> TRUE, state |-> Start, msg_id |-> 0, handlers |-> hs]

\* Node::new: fails when the registry has an "init" handler, and otherwise
\* builds a node in Start with counter 0 and the given registry.
Node_new(hs) ==
    IF "init" \in DOMAIN hs
    THEN [ok |-> FALSE, state |-> Start, msg_id |-> 0, handlers |-> hs]
    ELSE [ok |-> TRUE, state |-> Start, msg_id |-> 0, handlers |-> hs]

\* ------------------------------------------------------------------------
\* The inputs of the model.
\* ------------------------------------------------------------------------
N1 == <<"n", "1">>
N2 == <<"n", "2">>
QuotedName == <<"a", Quote, "b">>
Hi == <<"h", "i">>

\* The values an init body carries under node_id and under node_ids.
NodeIdValues == {Absent, JString(N1), JString(N2), JString(QuotedName), JNumber(5)}
NodeIdsValues ==
    {Absent, JArray(<<JString(N1), JString(N2)>>), JArray(<<JString(N2), JNumber(3)>>),
     JString(N1)}
EchoValues == {Absent, JString(Hi)}

\* The Map holding the given values, without the absent ones.
MkExtra(vals) == [k \in {key \in DOMAIN vals : vals[key] # Absent} |-> vals[k]]

InitMessages ==
    {Message("c1", "n1", Body("init", m, 0, MkExtra([node_id |-> a, node_ids |-> b]))) :
        m \in 0..MaxReqId, a \in NodeIdValues, b \in NodeIdsValues}

OtherTypes == {"echo", "id", "unknown"}

OtherMessages ==
    {Message("c1", "n1", Body(t, m, 0, MkExtra([echo |-> e]))) :
        t \in OtherTypes, m \in 0..MaxReqId, e \in EchoValues}

Messages == InitMessages \cup OtherMessages

\* The registries handed to Node::new.
HandlerTypes == {"init", "echo", "id"}
Registries ==
    UNION {[keys -> HandlerNames] : keys \in SUBSET HandlerTypes}

\* ------------------------------------------------------------------------
\* The state: one Node and the record of the calls made on it.
\* ------------------------------------------------------------------------
VARIABLES
    state,      \* Node.state
    msg_id,     \* Node.msg_id, the reply-id counter
    handlers,   \* Node.handlers
    calls,      \* the number of Node::handle calls made
    request,    \* the message of the last call
    result,     \* the Result the last call returned
    invoked,    \* the handler invocations of the last call
    before,     \* the node's state and counter when the last call began
    allocated,  \* every id Node::reply_id has returned, in order
    replies     \* the number of calls that returned Ok

vars == <<state, msg_id, handlers, calls, request, result, invoked, before,
          allocated, replies>>

Init ==
    /\ \E hs \in Registries :
          /\ Node_new(hs).ok
          /\ state = Node_new(hs).state
          /\ msg_id = Node_new(hs).msg_id
          /\ handlers = Node_new(hs).handlers
    /\ calls = 0
    /\ request = DefaultMessage
    /\ result = Ok(DefaultMessage)
    /\ invoked = <<>>
    /\ before = [state |-> Start, msg_id |-> 0]
    /\ allocated = <<>>
    /\ replies = 0

\* One call node.handle(msg).
Handle(msg) ==
    /\ calls < MaxCalls
    /\ LET o == handle(state, msg_id, handlers, msg)
       IN /\ state' = o.state
          /\ msg_id' = o.msg_id
          /\ result' = o.result
          /\ invoked' = o.invoked
          /\ allocated' = allocated \o o.ids
          /\ replies' = replies + (IF o.result.ok THEN 1 ELSE 0)
    /\ request' = msg
    /\ before' = [state |-> state, msg_id |-> msg_id]
    /\ calls' = calls + 1
    /\ UNCHANGED handlers

Next == \E msg \in Messages : Handle(msg)

\* ------------------------------------------------------------------------
\* The construction of the Node, as a step of its own.
\* ------------------------------------------------------------------------
VARIABLES
    built,      \* "no" before Node::new is called, then "ok" or "err"
    registry    \* the registry Node::new was called with

newVars == <<built, registry>>

\* The node variables before there is a Node.
NoNode ==
    /\ state = Start
    /\ msg_id = 0
    /\ handlers = <<>>
    /\ calls = 0
    /\ request = DefaultMessage
    /\ result = Ok(DefaultMessage)
    /\ invoked = <<>>
    /\ before = [state |-> Start, msg_id |-> 0]
    /\ allocated = <<>>
    /\ replies = 0

\* One call Node::new(hs): on Ok the Node exists, on Err there is none.
New(hs) ==
    /\ built = "no"
    /\ registry' = hs
    /\ LET r == Node_new(hs)
       IN IF r.ok
          THEN /\ built' = "ok"
               /\ state' = r.state
               /\ msg_id' = r.msg_id
               /\ handlers' = r.handlers
          ELSE /\ built' = "err"
               /\ UNCHANGED <<state, msg_id, handlers>>
    /\ UNCHANGED <<calls, request, result, invoked, before, allocated, replies>>

\* One call node.handle(msg) on the Node that Node::new returned.
HandleBuilt(msg) ==
    /\ built = "ok"
    /\ Handle(msg)
    /\ UNCHANGED newVars

allVars == <<vars, newVars>>

\* ------------------------------------------------------------------------
\* message.rs: the JSON text of a Message, and serde's from_str / to_string.
\*
\* A line of text is the JSON object it spells: its src, dest and body
\* members (Absent when the object has none), the body being an object with
\* its members, or no object. A JSON string whose characters do not matter
\* (src, dest, type) is the string of one element, the whole text.
\* ------------------------------------------------------------------------
Text(t) == JString(<<t>>)
AtomOf(v) == IF v.s = <<>> THEN "" ELSE v.s[1]

ObjectBody(fields) == [kind |-> "object", fields |-> fields]
NoBody == [kind |-> "absent", fields |-> <<>>]
StringBody == [kind |-> "string", fields |-> <<>>]

Line(src, dest, body) == [json |-> "object", src |-> src, dest |-> dest, body |-> body]
\* The text of no characters, which read_line leaves at end of input.
EmptyLine == [json |-> "empty", src |-> Absent, dest |-> Absent, body |-> NoBody]

\* The members of a body that are fields of Body; every other member goes
\* to Body::extra (serde(flatten)).
FixedKeys == {"type", "msg_id", "in_reply_to"}

\* serde_json::from_str::<Message>: src, dest and body are required, src and
\* dest strings and body an object; type, msg_id and in_reply_to have
\* serde(default), so a body without them gets "", 0 and 0; a member of the
\* wrong JSON type is an error.
from_str(line) ==
    IF line.json # "object" THEN Err("parse error", "")
    ELSE IF line.src = Absent \/ line.src.kind # "string" THEN Err("parse error", "")
    ELSE IF line.dest = Absent \/ line.dest.kind # "string" THEN Err("parse error", "")
    ELSE IF line.body.kind # "object" THEN Err("parse error", "")
    ELSE LET f == line.body.fields
             typ == Get(f, "type")
             mid == Get(f, "msg_id")
             irt == Get(f, "in_reply_to")
         IN IF \/ (typ # Absent /\ typ.kind # "string")
               \/ (mid # Absent /\ mid.kind # "number")
               \/ (irt # Absent /\ irt.kind # "number")
            THEN Err("parse error", "")
            ELSE Ok(Message(AtomOf(line.src), AtomOf(line.dest),
                            Body(IF typ = Absent THEN "" ELSE AtomOf(typ),
                                 IF mid = Absent THEN 0 ELSE mid.n,
                                 IF irt = Absent THEN 0 ELSE irt.n,
                                 [k \in DOMAIN f \ FixedKeys |-> f[k]])))

\* The members Body's own fields serialize to: type unless it is empty
\* (skip_serializing_if), msg_id and in_reply_to always.
FixedMembers(body) ==
    [k \in (IF body.typ = "" THEN {} ELSE {"type"}) \cup {"msg_id", "in_reply_to"} |->
        IF k = "type" THEN Text(body.typ)
        ELSE IF k = "msg_id" THEN JNumber(body.msg_id)
        ELSE JNumber(body.in_reply_to)]

message_to_string_nested(msg) ==
    Line(Text(msg.src), Text(msg.dest),
         ObjectBody([k \in DOMAIN FixedMembers(msg.body) \cup
                            (IF msg.body.extra = <<>> THEN {} ELSE {"extra"}) |->
                        IF k \in DOMAIN FixedMembers(msg.body)
                        THEN FixedMembers(msg.body)[k]
                        ELSE JNull]))

\* serde_json::to_string(&Message): the members of Body::extra are written
\* beside type, msg_id and in_reply_to (serde(flatten)).
message_to_string(msg) ==
    LET fixed == FixedMembers(msg.body)
    IN Line(Text(msg.src), Text(msg.dest),
            ObjectBody([k \in DOMAIN fixed \cup DOMAIN msg.body.extra |->
                           IF k \in DOMAIN fixed THEN fixed[k] ELSE msg.body.extra[k]]))

\* The texts of the model: bodies of every shape under a good src and dest,
\* a good body under every src and dest, and the empty text.
WireTypes == {Absent, Text("init"), Text("echo"), Text("unknown"), JNumber(1)}
WireIds == {Absent, JNumber(1), JString(N1)}
WireExtras ==
    {MkExtra([echo |-> e, node_id |-> a, node_ids |-> b]) :
        e \in EchoValues,
        a \in {Absent, JString(N1)},
        b \in {Absent, JArray(<<JString(N1), JString(N2)>>)}}

WireBodies ==
    {NoBody, StringBody} \cup
    {ObjectBody([k \in {key \in FixedKeys \cup DOMAIN x :
                          key \in DOMAIN x
                          \/ [type |-> t, msg_id |-> m, in_reply_to |-> r][key] # Absent} |->
                    IF k \in DOMAIN x THEN x[k]
                    ELSE [type |-> t, msg_id |-> m, in_reply_to |-> r][k]]) :
        t \in WireTypes, m \in WireIds, r \in {Absent, JNumber(1)}, x \in WireExtras}

EchoBody == ObjectBody([type |-> Text("echo"), msg_id |-> JNumber(1), echo |-> JString(Hi)])

WireLines ==
    {Line(Text("c1"), Text("n1"), b) : b \in WireBodies}
    \cup {Line(src, dest, EchoBody) :
             src \in {Absent, Text("c1"), JNumber(7)},
             dest \in {Absent, Text("n1"), JNumber(7)}}
    \cup {EmptyLine}

\* ------------------------------------------------------------------------
\* One text taken through from_str and, when it parses, to_string.
\* ------------------------------------------------------------------------
VARIABLES
    wire,       \* the text given to from_str
    stage,      \* "text", then "parsed", then "written"
    parsed,     \* the Result of from_str
    rewire      \* the text to_string gives for the parsed Message

msgVars == <<wire, stage, parsed, rewire>>

InitMessage ==
    /\ wire \in WireLines
    /\ stage = "text"
    /\ parsed = Err("", "")
    /\ rewire = EmptyLine

\* serde_json::from_str::<Message>(wire)
Parse ==
    /\ stage = "text"
    /\ parsed' = from_str(wire)
    /\ stage' = "parsed"
    /\ UNCHANGED <<wire, rewire>>

\* serde_json::to_string of the Message that was parsed
Write ==
    /\ stage = "parsed"
    /\ parsed.ok
    /\ rewire' = message_to_string(parsed.msg)
    /\ stage' = "written"
    /\ UNCHANGED <<wire, parsed>>

\* ------------------------------------------------------------------------
\* main.rs: the loop of main, which reads stdin line by line.
\* ------------------------------------------------------------------------
\* The lines stdin holds before its end.
MaxLines == 3

\* Node::new of main.rs: the id and the names are the JSON texts of the
\* values, quotes included.
main_Node_new(body) ==
    LET node_id == Get(body.extra, "node_id")
        node_ids == Get(body.extra, "node_ids")
    IN IF node_id = Absent
       THEN [ok |-> FALSE, id |-> <<>>, other_nodes |-> <<>>]
       ELSE IF ~IsArray(node_ids)
       THEN [ok |-> FALSE, id |-> <<>>, other_nodes |-> <<>>]
       ELSE [ok |-> TRUE,
             id |-> to_string(node_id),
             other_nodes |-> [i \in 1..Len(node_ids.a) |-> to_string(node_ids.a[i])]]

\* `let mut node;` before it is assigned.
NoMainNode == [ok |-> FALSE, id |-> <<>>, other_nodes |-> <<>>]

VARIABLES
    unread,       \* the number of lines stdin still holds
    running,      \* the while loop has not been left
    eof,          \* read_line has returned Ok(0)
    node,         \* `node` of main
    main_msg_id,  \* `msg_id` of main
    line,         \* the line of the last iteration
    got,          \* the Result of from_str in the last iteration
    printed,      \* the lines the last iteration wrote to stdout
    written,      \* the number of lines written to stdout
    main_before   \* node and msg_id when the last iteration began

mainVars == <<unread, running, eof, node, main_msg_id, line, got, printed,
              written, main_before>>

InitMain ==
    /\ unread \in 0..MaxLines
    /\ running = TRUE
    /\ eof = FALSE
    /\ node = NoMainNode
    /\ main_msg_id = 0
    /\ line = EmptyLine
    /\ got = Err("", "")
    /\ printed = <<>>
    /\ written = 0
    /\ main_before = [node |-> NoMainNode, msg_id |-> 0]

\* The body of the while loop for the buffer read: the new node and counter
\* and the lines printed.
LoopBody(buffer, n, id) ==
    LET r == from_str(buffer)
        keep == [got |-> r, node |-> n, msg_id |-> id, printed |-> <<>>]
    IN IF ~r.ok THEN keep
       ELSE IF r.msg.body.typ = "init"
       THEN LET made == main_Node_new(r.msg.body)
            IN IF made.ok
               THEN [got |-> r, node |-> made, msg_id |-> id + 1,
                     printed |-> <<message_to_string(init_reply(r.msg, id))>>]
               ELSE keep
       ELSE IF r.msg.body.typ = "echo"
       THEN [got |-> r, node |-> n, msg_id |-> id + 1,
             printed |-> <<message_to_string(echo_reply(r.msg, id))>>]
       ELSE keep

\* One iteration of the loop on the given buffer.
Iterate(buffer) ==
    LET o == LoopBody(buffer, node, main_msg_id)
    IN /\ line' = buffer
       /\ got' = o.got
       /\ node' = o.node
       /\ main_msg_id' = o.msg_id
       /\ printed' = o.printed
       /\ written' = written + Len(o.printed)
       /\ main_before' = [node |-> node, msg_id |-> main_msg_id]

\* read_line returns Ok with the next line of stdin.
ReadLine(w) ==
    /\ running
    /\ unread > 0
    /\ unread' = unread - 1
    /\ Iterate(w)
    /\ UNCHANGED <<running, eof>>

\* read_line returns Ok(0) at the end of stdin: is_ok() holds, and the loop
\* body runs on the empty buffer.
ReadEof ==
    /\ running
    /\ unread = 0
    /\ eof' = TRUE
    /\ Iterate(EmptyLine)
    /\ UNCHANGED <<unread, running>>

\* read_line returns Err (an I/O error): the loop is left and main returns.
ReadErr ==
    /\ running
    /\ running' = FALSE
    /\ UNCHANGED <<unread, eof, node, main_msg_id, line, got, printed, written,
                   main_before>>

\* ------------------------------------------------------------------------
\* The specifications. Each runs one part of the program and holds the
\* variables of the other parts at rest.
\* ------------------------------------------------------------------------
everything == <<allVars, msgVars, mainVars>>

NodeIdle == NoNode /\ built = "no" /\ registry = <<>>

MessageIdle ==
    /\ wire = EmptyLine
    /\ stage = "text"
    /\ parsed = Err("", "")
    /\ rewire = EmptyLine

MainIdle ==
    /\ unread = 0
    /\ running = FALSE
    /\ eof = FALSE
    /\ node = NoMainNode
    /\ main_msg_id = 0
    /\ line = EmptyLine
    /\ got = Err("", "")
    /\ printed = <<>>
    /\ written = 0
    /\ main_before = [node |-> NoMainNode, msg_id |-> 0]

\* The Node of Init is the one Node::new returned for its registry.
InitBuilt == Init /\ built = "ok" /\ registry = handlers

NextBuilt ==
    \E msg \in Messages : HandleBuilt(msg) /\ UNCHANGED <<msgVars, mainVars>>

InitSpec == InitBuilt /\ MessageIdle /\ MainIdle

\* The calls on a constructed Node.
Spec == InitSpec /\ [][NextBuilt]_everything

NextNew ==
    \/ \E hs \in Registries : New(hs) /\ UNCHANGED <<msgVars, mainVars>>
    \/ \E msg \in Messages : HandleBuilt(msg) /\ UNCHANGED <<msgVars, mainVars>>

InitSpecNew == NodeIdle /\ MessageIdle /\ MainIdle

\* The construction of a Node from any registry, and the calls on it.
SpecNew == InitSpecNew /\ [][NextNew]_everything

NextMessage ==
    \/ Parse /\ UNCHANGED <<allVars, mainVars>>
    \/ Write /\ UNCHANGED <<allVars, mainVars>>

InitSpecMessage == InitMessage /\ NodeIdle /\ MainIdle

\* A text through from_str and to_string.
SpecMessage == InitSpecMessage /\ [][NextMessage]_everything

NextMain ==
    \/ \E w \in WireLines : ReadLine(w) /\ UNCHANGED <<allVars, msgVars>>
    \/ ReadEof /\ UNCHANGED <<allVars, msgVars>>
    \/ ReadErr /\ UNCHANGED <<allVars, msgVars>>

InitSpecMain == InitMain /\ NodeIdle /\ MessageIdle

\* The loop of main on a stdin of at most MaxLines lines.
SpecMain == InitSpecMain /\ [][NextMain]_everything

\* ------------------------------------------------------------------------
\* Vocabulary of the properties.
\* ------------------------------------------------------------------------
\* The last call was made on a node in Start / in Initialized.
CalledInStart == calls > 0 /\ before.state.tag = "Start"
CalledInInitialized == calls > 0 /\ before.state.tag = "Initialized"

\* The texts of the errors InitializedNode::new gives for a body it rejects.
InvalidInitErrors ==
    {"can't init node if body has no node_id field",
     "node_ids must be an array of node names"}

\* An array whose elements are all strings.
IsArrayOfStrings(v) == IsArray(v) /\ \A i \in 1..Len(v.a) : v.a[i].kind = "string"

\* An init body with node_id a string and node_ids an array of strings.
ValidInit(body) ==
    /\ body.typ = "init"
    /\ Get(body.extra, "node_id").kind = "string"
    /\ IsArrayOfStrings(Get(body.extra, "node_ids"))

\* The strings of an array of strings.
Names(v) == [i \in 1..Len(v.a) |-> v.a[i].s]

\* The last id taken from the counter is none of the ids taken before it.
LastIdIsFresh ==
    /\ allocated # <<>>
    /\ \A i \in 1..(Len(allocated) - 1) : allocated[i] # allocated[Len(allocated)]

\* ------------------------------------------------------------------------
\* The properties.
\* ------------------------------------------------------------------------

\* C1: a call made in Start with a message whose type is not "init" returns
\* the Not Ready error and invokes no handler, registered or not.
C1_NotReadyBeforeInit ==
    (CalledInStart /\ request.body.typ # "init")
        => /\ result = Err("Not Ready", "")
           /\ invoked = <<>>

\* C1 happens: a message whose type has a registered handler was refused in
\* Start.
C1_Witness ==
    /\ CalledInStart
    /\ request.body.typ \in DOMAIN handlers
    /\ result = Err("Not Ready", "")

\* C2: once the node is Initialized, no call changes its state: the id and
\* the peers stay those of the first successful init.
C2_InitializedIsFinal ==
    [][state.tag = "Initialized" => state' = state]_vars

\* C2 happens: an Initialized node answered an init message that carries
\* another node_id and other node_ids than the stored ones.
C2_Witness ==
    /\ CalledInInitialized
    /\ ValidInit(request.body)
    /\ Get(request.body.extra, "node_id").s # state.id
    /\ Names(Get(request.body.extra, "node_ids")) # state.other_nodes
    /\ result.ok
    /\ state = before.state

\* C3 as claimed: the counter equals the number of calls that returned a
\* reply.
C3_CounterCountsReplies == msg_id = replies

\* C4 as claimed: a valid init handled in Start stores node_id and node_ids
\* as the identity and returns init_ok with no extra field, src and dest
\* swapped, in_reply_to the request's msg_id and msg_id 0.
C4_ValidInitInitializes ==
    (CalledInStart /\ ValidInit(request.body))
        => /\ state = Initialized(Get(request.body.extra, "node_id").s,
                                  Names(Get(request.body.extra, "node_ids")))
           /\ result = Ok(Message(request.dest, request.src,
                                  Body("init_ok", 0, request.body.msg_id, EmptyExtra)))

\* C5: an init message handled by an Initialized node is answered with Ok,
\* an init_ok whose in_reply_to is the request's msg_id and whose msg_id is
\* one fresh id taken from the counter.
C5_ReinitAnswered ==
    (CalledInInitialized /\ request.body.typ = "init")
        => /\ result.ok
           /\ result.msg.body.typ = "init_ok"
           /\ result.msg.body.in_reply_to = request.body.msg_id
           /\ result.msg.body.msg_id = before.msg_id
           /\ msg_id = before.msg_id + 1
           /\ LastIdIsFresh
           /\ allocated[Len(allocated)] = before.msg_id

\* C5 happens: an Initialized node answered an init message that has no
\* node_id, which a node in Start rejects.
C5_Witness ==
    /\ CalledInInitialized
    /\ request.body.typ = "init"
    /\ request.body.msg_id # 0
    /\ "node_id" \notin DOMAIN request.body.extra
    /\ result.ok

\* C6: the ids taken from the counter strictly increase, so none is used
\* twice; the id given to a handler or put on an init_ok is the one just
\* taken; and the k-th id is k - 1 whatever msg_id the requests carried.
C6_ReplyIdsIncrease ==
    /\ \A i, j \in 1..Len(allocated) : i < j => allocated[i] < allocated[j]
    /\ \A i \in 1..Len(allocated) : allocated[i] = i - 1
    /\ \A i \in 1..Len(invoked) : invoked[i].id = allocated[Len(allocated)]
    /\ (calls > 0 /\ request.body.typ = "init" /\ result.ok)
           => result.msg.body.msg_id = allocated[Len(allocated)]

\* C6 happens: three ids were taken and the last went to a request whose
\* msg_id is another number.
C6_Witness ==
    /\ Len(allocated) >= 3
    /\ result.ok
    /\ request.body.msg_id < allocated[Len(allocated)]

\* C7: for an Initialized node and a type other than "init" with a
\* registered handler, the call invokes that handler once, with the request
\* and a fresh id, and returns what the handler returns.
C7_DispatchToHandler ==
    (CalledInInitialized /\ request.body.typ # "init"
                         /\ request.body.typ \in DOMAIN handlers)
        => /\ invoked = <<[handler |-> handlers[request.body.typ],
                           msg |-> request, id |-> before.msg_id]>>
           /\ result = Invoke(handlers[request.body.typ], request, before.msg_id)
           /\ LastIdIsFresh
           /\ allocated[Len(allocated)] = before.msg_id

\* C7 happens: the registry holds two different handlers and the failing
\* one was invoked, its error returned.
C7_Witness ==
    /\ CalledInInitialized
    /\ DOMAIN handlers = {"echo", "id"}
    /\ handlers["echo"] = "echo_handler"
    /\ handlers["id"] = "error_handler"
    /\ request.body.typ = "id"
    /\ result = Err("error from handler", "")

\* C8: an init whose body lacks node_id or node_ids, handled in Start, is an
\* error with no reply; the node stays in Start with its counter unchanged,
\* and every init with a node_id and an array node_ids then initializes it.
C8_MissingFieldRejected ==
    (CalledInStart /\ request.body.typ = "init"
                   /\ ("node_id" \notin DOMAIN request.body.extra
                       \/ "node_ids" \notin DOMAIN request.body.extra))
        => /\ ~result.ok
           /\ result.err \in InvalidInitErrors
           /\ state = Start
           /\ msg_id = before.msg_id
           /\ invoked = <<>>
           /\ \A m \in InitMessages :
                 ValidInit(m.body) =>
                    LET o == handle(state, msg_id, handlers, m)
                    IN o.state.tag = "Initialized" /\ o.result.ok

\* C8 happens: an init without node_ids was rejected in Start.
C8_Witness ==
    /\ CalledInStart
    /\ request.body.typ = "init"
    /\ DOMAIN request.body.extra = {"node_id"}
    /\ ~result.ok

\* C9 as claimed: an init handled in Start whose node_id is present but no
\* string, or whose node_ids is present but no array of strings, is an
\* InvalidInit error and the node stays in Start.
C9_WrongShapeRejected ==
    (CalledInStart /\ request.body.typ = "init"
        /\ \/ /\ "node_id" \in DOMAIN request.body.extra
              /\ request.body.extra["node_id"].kind # "string"
           \/ /\ "node_ids" \in DOMAIN request.body.extra
              /\ ~IsArrayOfStrings(request.body.extra["node_ids"]))
        => /\ ~result.ok
           /\ result.err \in InvalidInitErrors
           /\ state = Start

\* C10: for an Initialized node and a type other than "init" without a
\* handler, the call returns the error that names that type, invokes no
\* handler and leaves the state as it was.
C10_UnhandledType ==
    (CalledInInitialized /\ request.body.typ # "init"
                         /\ request.body.typ \notin DOMAIN handlers)
        => /\ result = Err("UnimplementedError: No handler for message type",
                           request.body.typ)
           /\ invoked = <<>>
           /\ state = before.state

\* C10 happens: a node with handlers was sent a type none is registered for.
C10_Witness ==
    /\ CalledInInitialized
    /\ handlers # <<>>
    /\ request.body.typ = "unknown"
    /\ ~result.ok
    /\ result.typ = "unknown"

\* C11: Node::new fails exactly when the registry has an "init" handler and
\* then there is no Node to call; otherwise the Node starts in Start with
\* counter 0 and that registry. No Node has an "init" handler, and no handler
\* is ever invoked with an init message.
C11_InitHandlerRefused ==
    /\ built = "err" <=> (built # "no" /\ "init" \in DOMAIN registry)
    /\ built = "err" => NoNode
    /\ built = "ok" =>
          /\ handlers = registry
          /\ "init" \notin DOMAIN handlers
          /\ calls = 0 => (state = Start /\ msg_id = 0)
    /\ \A i \in 1..Len(invoked) : invoked[i].msg.body.typ # "init"

\* C11 happens: Node::new was called with a registry that has an "init"
\* handler beside another one, and failed.
C11_Witness ==
    /\ built = "err"
    /\ DOMAIN registry = {"init", "echo"}

\* C12: a call that returns the Not Ready error leaves the Node as it was:
\* still in Start, with the same counter and the same registry.
C12_NotReadyChangesNothing ==
    [][(~result'.ok /\ result'.err = "Not Ready")
          => /\ state = Start
             /\ state' = state
             /\ msg_id' = msg_id
             /\ handlers' = handlers]_vars

\* C12 happens: the second call or a later one was refused as Not Ready on a
\* node that has handlers.
C12_Witness ==
    /\ calls >= 2
    /\ handlers # <<>>
    /\ result = Err("Not Ready", "")
    /\ state = Start

\* C19: an Initialized node has a counter of at least 1, and no handler is
\* ever given the reply id 0.
C19_InitializedCounterPositive ==
    /\ state.tag = "Initialized" => msg_id >= 1
    /\ \A i \in 1..Len(invoked) : invoked[i].id # 0

\* C19 happens: the first call after the init went to a handler, which was
\* given the id 1.
C19_Witness ==
    /\ CalledInInitialized
    /\ Len(invoked) = 1
    /\ invoked[1].id = 1

\* The members of a body text that are no field of Body.
ExtraMembers(body) ==
    [k \in DOMAIN body.fields \ FixedKeys |-> body.fields[k]]

\* The last line read by main parsed, and its type.
GotType == IF got.ok THEN got.msg.body.typ ELSE ""

\* Handling of the last line read by main succeeds, for a node whose one
\* handler is echo: an init that is valid or comes after the node was
\* initialized, or an echo after the node was initialized.
HandlingSucceeds ==
    /\ got.ok
    /\ \/ /\ GotType = "init"
          /\ main_before.node.ok \/ main_Node_new(got.msg.body).ok
       \/ /\ GotType = "echo"
          /\ main_before.node.ok

\* C13 as claimed: the in_reply_to of an init_ok reply is the msg_id of the
\* request when the request has one, and the reply has no in_reply_to when
\* the request has no msg_id.
C13_InReplyToFollowsMsgId ==
    (GotType = "init" /\ printed # <<>>)
        => LET req == line.body.fields
               out == printed[1].body.fields
           IN IF "msg_id" \in DOMAIN req
              THEN "in_reply_to" \in DOMAIN out /\ out["in_reply_to"] = req["msg_id"]
              ELSE "in_reply_to" \notin DOMAIN out

\* C14 as claimed: a line without src, without dest, without a body that is
\* an object, or without a body.type that is a string does not parse; and a
\* line that does not parse writes nothing and changes neither the node nor
\* the counter.
C14_MalformedRejected ==
    /\ (/\ line.json = "object"
        /\ \/ line.src = Absent
           \/ line.dest = Absent
           \/ line.body.kind # "object"
           \/ "type" \notin DOMAIN line.body.fields
           \/ line.body.fields["type"].kind # "string")
          => ~got.ok
    /\ ~got.ok => /\ printed = <<>>
                  /\ node = main_before.node
                  /\ main_msg_id = main_before.msg_id

\* C15 as claimed: an iteration of main writes one line when the handling of
\* its line succeeds and none otherwise; an echo read before any init was
\* accepted writes none.
C15_OneLinePerHandledLine ==
    /\ Len(printed) = (IF HandlingSucceeds THEN 1 ELSE 0)
    /\ (GotType = "echo" /\ ~main_before.node.ok) => printed = <<>>

\* C16: the line written for an echo request has src and dest swapped, type
\* echo_ok, in_reply_to the msg_id of the request, msg_id the counter of
\* main when the request was read, and every other member of the request's
\* body unchanged, and no further member.
C16_EchoReply ==
    GotType = "echo"
        => /\ Len(printed) = 1
           /\ LET out == printed[1]
              IN /\ out.src = line.dest
                 /\ out.dest = line.src
                 /\ out.body.kind = "object"
                 /\ out.body.fields["type"] = Text("echo_ok")
                 /\ out.body.fields["in_reply_to"] = JNumber(got.msg.body.msg_id)
                 /\ ("msg_id" \in DOMAIN line.body.fields
                        => out.body.fields["in_reply_to"] = line.body.fields["msg_id"])
                 /\ out.body.fields["msg_id"] = JNumber(main_before.msg_id)
                 /\ ExtraMembers(out.body) = ExtraMembers(line.body)

\* C16 happens: an echo request with a msg_id and an echo member was
\* answered after another reply had taken id 0.
C16_Witness ==
    /\ GotType = "echo"
    /\ main_before.msg_id >= 1
    /\ "msg_id" \in DOMAIN line.body.fields
    /\ "echo" \in DOMAIN line.body.fields
    /\ Len(printed) = 1

\* C17: the text to_string writes for a Message that from_str parsed has, in
\* its body and beside type, msg_id and in_reply_to, the members of the
\* parsed text that are no field of Body, with the same values, and no
\* others.
C17_ExtraFieldsRoundTrip ==
    stage = "written"
        => /\ rewire.body.kind = "object"
           /\ ExtraMembers(rewire.body) = ExtraMembers(wire.body)
           /\ \A k \in DOMAIN wire.body.fields \ FixedKeys :
                 /\ k \in DOMAIN rewire.body.fields
                 /\ rewire.body.fields[k] = wire.body.fields[k]

\* C17 happens: a text with three members that are no field of Body was
\* parsed and written again.
C17_Witness ==
    /\ stage = "written"
    /\ DOMAIN wire.body.fields \ FixedKeys = {"echo", "node_id", "node_ids"}

\* C18 as claimed: once read_line has reported the end of stdin, the loop of
\* main has been left.
C18_LoopLeftAtEof == eof => ~running

====
